---- MODULE Spec2Model ----
(***************************************************************************)
(* glov-build-cache (src/index.js): a persistent cache wrapped around a    *)
(* slow single-input glov-build task.  The model follows one cache key     *)
(* through a bounded number of processes and runs: gbcache() builds the    *)
(* closure, init() loads the index file, func() probes the cache for each  *)
(* job (hit: cached files are read and verified; miss: the wrapped task    *)
(* runs), and finish() reconciles the old index with the entries recorded  *)
(* this run, writes files and index, and prunes.                           *)
(*                                                                         *)
(* Strings are sequences of one-character strings, so that splitting,      *)
(* joining, sanitising and sorting are computed as the code computes them. *)
(* A Buffer is a small natural number (its content).                       *)
(***************************************************************************)
EXTENDS Integers, Sequences, FiniteSets, TLC

(***************************************************************************)
(* Bounds of the model.                                                    *)
(***************************************************************************)
MaxContent == 1        \* buffers are 0..MaxContent
MaxVersion == 2        \* task versions are 1..MaxVersion
MaxUpdates == 2        \* finish() calls that update the cache on disk
MaxFaults == 1         \* faults of the environment: a cached file deleted or
                       \* altered from outside, a readFile that fails on a
                       \* file that is there, an unlinkSync that throws

Contents == 0..MaxContent
Versions == 1..MaxVersion

(***************************************************************************)
(* Characters and strings.                                                 *)
(***************************************************************************)
\* The characters in use, in increasing UTF-16 code unit order.
AsciiOrder ==
  << "\n", "#", "-", ".", "/", "0", "1", "2", "3", "4", "5", "6", "7", "8",
     "9", ";", "_", "a", "b", "c", "d", "e", "f", "p", "x" >>

CodeOf(ch) == CHOOSE i \in 1..Len(AsciiOrder) : AsciiOrder[i] = ch

Digits == << "0", "1", "2", "3", "4", "5", "6", "7", "8", "9" >>

IsDigit(ch) == \E i \in 1..10 : Digits[i] = ch

DigitValue(ch) == (CHOOSE i \in 1..10 : Digits[i] = ch) - 1

\* String(n) for a non-negative integer.
RECURSIVE NumberToString(_)
NumberToString(n) ==
  IF n < 10 THEN << Digits[n + 1] >>
  ELSE NumberToString(n \div 10) \o << Digits[(n % 10) + 1] >>

NaN == -1

\* Number(s) for the strings an index line can hold in its version field:
\* "" is 0, a run of decimal digits is its value, anything else is NaN.
RECURSIVE DecimalValue(_)
DecimalValue(s) ==
  IF s = << >> THEN 0
  ELSE 10 * DecimalValue(SubSeq(s, 1, Len(s) - 1)) + DigitValue(s[Len(s)])

Number(s) ==
  IF \A i \in 1..Len(s) : IsDigit(s[i]) THEN DecimalValue(s) ELSE NaN

\* s.indexOf(ch): 0 when absent (the code's -1), else the first position.
IndexOf(s, ch) ==
  IF \E i \in 1..Len(s) : s[i] = ch
  THEN CHOOSE i \in 1..Len(s) : s[i] = ch /\ \A j \in 1..(i - 1) : s[j] # ch
  ELSE 0

\* s.lastIndexOf(ch): 0 when absent (the code's -1), else the last position.
LastIndexOf(s, ch) ==
  IF \E i \in 1..Len(s) : s[i] = ch
  THEN CHOOSE i \in 1..Len(s) : s[i] = ch /\ \A j \in (i + 1)..Len(s) : s[j] # ch
  ELSE 0

\* s.split(sep) for a one-character separator.
RECURSIVE Split(_, _)
Split(s, sep) ==
  LET i == IndexOf(s, sep)
  IN IF i = 0 THEN << s >>
     ELSE << SubSeq(s, 1, i - 1) >> \o Split(SubSeq(s, i + 1, Len(s)), sep)

\* parts.join(sep)
RECURSIVE Join(_, _)
Join(parts, sep) ==
  IF parts = << >> THEN << >>
  ELSE IF Len(parts) = 1 THEN parts[1]
  ELSE parts[1] \o << sep >> \o Join(Tail(parts), sep)

StartsWithComment(line) == Len(line) >= 2 /\ line[1] = "/" /\ line[2] = "/"

\* a < b in the default sort order of Array.prototype.sort (code units).
RECURSIVE StrLess(_, _)
StrLess(a, b) ==
  IF b = << >> THEN FALSE
  ELSE IF a = << >> THEN TRUE
  ELSE IF a[1] # b[1] THEN CodeOf(a[1]) < CodeOf(b[1])
  ELSE StrLess(Tail(a), Tail(b))

\* keys.sort() on a list of distinct strings.
RECURSIVE SortStrings(_)
SortStrings(keys) ==
  IF keys = << >> THEN << >>
  ELSE LET m == CHOOSE i \in 1..Len(keys) :
                  \A j \in 1..Len(keys) : ~StrLess(keys[j], keys[i])
       IN << keys[m] >>
          \o SortStrings(SubSeq(keys, 1, m - 1) \o SubSeq(keys, m + 1, Len(keys)))

(***************************************************************************)
(* Hasher and CacheFileNamer.                                              *)
(***************************************************************************)
HexDigits ==
  << "0", "1", "2", "3", "4", "5", "6", "7", "8", "9", "a", "b", "c", "d", "e", "f" >>

\* hash(buffer): the md5 hex digest, modelled by a digest of eight hex
\* characters that is injective on the buffers of the model.
hash(buffer) ==
  << "c", "0", "f", "f", "e", "e" >>
    \o << HexDigits[((buffer \div 16) % 16) + 1], HexDigits[(buffer % 16) + 1] >>

\* The characters of the model that match [A-Za-z0-9_.-].
SafeChars ==
  { "-", ".", "_", "a", "b", "c", "d", "e", "f", "p", "x",
    "0", "1", "2", "3", "4", "5", "6", "7", "8", "9" }

safeFilename(relative) ==
  [i \in 1..Len(relative) |-> IF relative[i] \in SafeChars THEN relative[i] ELSE "_"]

\* s.slice(-7)
SliceLast7(s) == IF Len(s) <= 7 THEN s ELSE SubSeq(s, Len(s) - 6, Len(s))

\* The file's name inside cache_folder (the folder is the same for all).
recordToFilename2(record, file_entry) ==
  LET fn0 == safeFilename(file_entry.relative)
      ext_idx == LastIndexOf(fn0, ".")
      ext == IF ext_idx # 0 THEN SubSeq(fn0, ext_idx, Len(fn0)) ELSE << >>
      fn == IF ext_idx # 0 THEN SubSeq(fn0, 1, ext_idx - 1) ELSE fn0
  IN fn \o << "#" >> \o SliceLast7(record.input_hash) \o ext

(***************************************************************************)
(* Indexes.  A JavaScript object used as a map is a list of entries in     *)
(* insertion order, at most one per key.                                   *)
(***************************************************************************)
NoContents == -1       \* a file record without a contents property

Undefined == << "undefined" >>

HasKey(idx, k) == \E i \in 1..Len(idx) : idx[i].relative = k

Lookup(idx, k) == idx[CHOOSE i \in 1..Len(idx) : idx[i].relative = k]

\* An assignment that replaces the whole map by the one entry.
AssignAlone(idx, entry) == << entry >>

\* idx[k] = entry
Assign(idx, entry) ==
  IF HasKey(idx, entry.relative)
  THEN [i \in 1..Len(idx) |->
          IF idx[i].relative = entry.relative THEN entry ELSE idx[i]]
  ELSE Append(idx, entry)

Keys(idx) == [i \in 1..Len(idx) |-> idx[i].relative]

KeySet(idx) == { idx[i].relative : i \in 1..Len(idx) }

FileRecord(relative, output_hash) ==
  [relative |-> relative, output_hash |-> output_hash,
   needs_write |-> FALSE, contents |-> NoContents]

\* OutputPairs that reads each pair as (output_hash, relative).
RECURSIVE OutputPairsSwapped(_)
OutputPairsSwapped(outputs) ==
  IF Len(outputs) < 2 THEN << >>
  ELSE << FileRecord(outputs[2], outputs[1]) >>
       \o OutputPairsSwapped(SubSeq(outputs, 3, Len(outputs)))

\* The (relative, output_hash) pairs of the fields after the identity hash.
RECURSIVE OutputPairs(_)
OutputPairs(outputs) ==
  IF Len(outputs) < 2 THEN << >>
  ELSE << FileRecord(outputs[1], outputs[2]) >>
       \o OutputPairs(SubSeq(outputs, 3, Len(outputs)))

\* One line of the index file, lines 70-91.
ParseLine(line) ==
  LET fields == Split(line, ";")
      relative == fields[1]
      ver == IF Len(fields) >= 2 THEN Number(fields[2]) ELSE NaN
      input_hash == IF Len(fields) >= 3 THEN fields[3] ELSE Undefined
      outputs == SubSeq(fields, 4, Len(fields))
      odd == Len(outputs) % 2 = 1
  IN [relative |-> relative,
      ver |-> ver,
      input_hash |-> input_hash,
      files |-> IF odd
                THEN << FileRecord(relative, outputs[1]) >>
                     \o OutputPairs(Tail(outputs))
                ELSE OutputPairs(outputs),
      seen |-> FALSE]

RECURSIVE ParseLines(_, _)
ParseLines(lines, idx) ==
  IF lines = << >> THEN idx
  ELSE LET line == Head(lines)
       IN IF line = << >> \/ StartsWithComment(line)
          THEN ParseLines(Tail(lines), idx)
          ELSE ParseLines(Tail(lines), Assign(idx, ParseLine(line)))

\* The old index that init() builds from the index file, lines 63-93.
LoadIndex(file) ==
  IF file.exists /\ file.data # << >>
  THEN ParseLines(Split(file.data, "\n"), << >>)
  ELSE << >>

\* line.splice(3, 0, x) replaced by line.push(x).
SpliceAtEnd(line, x) == Append(line, x)

\* line.splice(3, 0, x)
Splice3(line, x) == SubSeq(line, 1, 3) \o << x >> \o SubSeq(line, 4, Len(line))

RECURSIVE LineFields(_, _, _)
LineFields(record, ii, line) ==
  IF ii > Len(record.files) THEN line
  ELSE LET file_entry == record.files[ii]
       IN LineFields(record, ii + 1,
            IF file_entry.relative = record.relative
            THEN Splice3(line, file_entry.output_hash)
            ELSE line \o << file_entry.relative, file_entry.output_hash >>)

\* One line of index_txt, lines 273-283: the task version is written, not
\* the record's own ver.
IndexLine(record, task_version) ==
  Join(LineFields(record, 1,
         << record.relative, NumberToString(task_version), record.input_hash >>),
       ";")

\* index_txt, lines 270-284.
IndexText(idx, task_version) ==
  LET keys == SortStrings(Keys(idx))
  IN Join([i \in 1..Len(keys) |-> IndexLine(Lookup(idx, keys[i]), task_version)],
          "\n")

(***************************************************************************)
(* The inputs of the task and the results of the wrapped task.             *)
(***************************************************************************)
PathA == << "d", "/", "a" >>
PathB == << "b", ".", "p" >>
PathC == << "c", ";", "q" >>       \* an input path with the delimiter in it
ExtraA == << "a", ".", "x" >>      \* a second output of the task on PathA
CollideA == << "d", "_", "a" >>    \* an output that safeFilename names like PathA
SemiB == << "b", ";", "p" >>       \* an output path with the delimiter in it

InputPaths == { PathA, PathB, PathC }

\* The bytes an input file can hold: PathA changes between runs, the others
\* do not.
InputContents(relative) == IF relative = PathA THEN Contents ELSE {0}

\* The sets of inputs the orchestrator gives a run: any of PathA and PathB.
InputSets ==
  { inputs \in [InputPaths -> Contents \cup {NoContents}] :
      /\ \A p \in InputPaths : inputs[p] \in InputContents(p) \cup {NoContents}
      /\ inputs[PathC] = NoContents }

\* Sets of inputs with unusual paths among them: PathA and PathB with the
\* bytes 0, or PathC alone or beside PathB.
WideInputSets ==
  { inputs \in [InputPaths -> {0, NoContents}] :
      inputs[PathC] # NoContents => inputs[PathA] = NoContents }

\* The bytes the task can give the output named like the input.
OutputContents(relative) == IF relative = PathA THEN Contents ELSE {0}

NoError == "null"
TaskError == "task failed"

Out(relative, contents) == [relative |-> relative, contents |-> contents]

\* What task_opts.func can do with a job: put files in the job's output
\* queue, or fail.  On PathA it gives one output named like the input, or a
\* second output in front of it, or fails; on PathB it gives the output named
\* like the input, or no output at all.
TaskResults(relative) ==
  { [err |-> NoError, files |-> << Out(relative, c) >>] :
      c \in OutputContents(relative) }
    \cup IF relative = PathA
         THEN { [err |-> TaskError, files |-> << >>] }
                \cup { [err |-> NoError,
                        files |-> << Out(ExtraA, (c + 1) % (MaxContent + 1)),
                                     Out(relative, c) >>] : c \in Contents }
         ELSE { [err |-> NoError, files |-> << >>] }

\* Results with unusual output paths among them.  On PathA the task gives the
\* output named like the input, alone or after ExtraA or after CollideA with
\* other bytes; on PathB the output named like the input, alone or after
\* SemiB, or no output at all.
WideTaskResults(relative) ==
  IF relative = PathA
  THEN { [err |-> NoError, files |-> << Out(relative, 0) >>],
         [err |-> NoError,
          files |-> << Out(ExtraA, MaxContent), Out(relative, 0) >>],
         [err |-> NoError,
          files |-> << Out(CollideA, MaxContent), Out(relative, 0) >>] }
  ELSE { [err |-> NoError, files |-> << Out(relative, 0) >>],
         [err |-> NoError, files |-> << Out(SemiB, 0), Out(relative, 0) >>],
         [err |-> NoError, files |-> << >>] }

(***************************************************************************)
(* State.                                                                  *)
(***************************************************************************)
VARIABLES
  version,            \* cache_opts.version
  do_cache_write,     \* closure variable, lines 22-38
  do_cache_rebuild,   \* closure variable, lines 23-35, 308
  index_file,         \* cache_index_path on disk: [exists, data]
  cache_files,        \* cache_folder on disk: file name -> contents
  cache_dirs,         \* cache_root and cache_folder exist
  index,              \* the old index, line 43
  new_index,          \* line 44
  cache_hit,          \* line 57
  cache_miss,         \* line 58
  jobs,               \* per input path: the func() call of this run
  phase,              \* "idle", "run" (after init()) or "finished" (after finish())
  report,             \* what the last finish() did
  prev,               \* the last completed run, for comparing runs
  updates,            \* finish() calls that updated the cache so far
  faults              \* faults of the environment so far

vars ==
  << version, do_cache_write, do_cache_rebuild, index_file, cache_files,
     cache_dirs, index, new_index, cache_hit, cache_miss, jobs, phase, report,
     prev, updates, faults >>

disk == << index_file, cache_files, cache_dirs >>

closure == << version, do_cache_write, do_cache_rebuild >>

\* A job: where its func() call stands (pc), the input's bytes, the reads still
\* pending, the local array outputs, the files func() itself passed to
\* job.out (served), the job's output queue (out), the calls of the wrapped
\* task with the error it ended with, and the calls of done with their error.
NoJob ==
  [pc |-> "none", contents |-> NoContents, pending |-> {}, outputs |-> << >>,
   served |-> << >>, out |-> << >>, task_calls |-> 0, task_err |-> NoError,
   done_calls |-> 0, done_err |-> NoError]

\* What the last finish() did: whether it ran in rebuild mode, whether it
\* updated the cache, the paths it queued, the files it wrote, its counts,
\* and its calls of fs in order (ops).
NoReport ==
  [rebuild |-> FALSE, reconciled |-> FALSE, to_prune |-> << >>,
   written |-> << >>, new_files |-> 0, pruned |-> 0, unchanged |-> 0,
   ops |-> << >>]

\* The record of the last completed run: its inputs and task version while
\* the next run has not begun, and then whether the run in progress has the
\* same inputs and task version.
NoPrev ==
  [known |-> FALSE, inputs |-> [p \in InputPaths |-> NoContents], version |-> 0,
   same |-> FALSE]

\* Between runs nothing of the last run is kept but the closure and the disk.
ForgetRun ==
  /\ index' = << >>
  /\ new_index' = << >>
  /\ cache_hit' = 0
  /\ cache_miss' = 0
  /\ jobs' = [p \in InputPaths |-> NoJob]
  /\ report' = NoReport

(***************************************************************************)
(* gbcache(cache_opts, task_opts), lines 17-44.                            *)
(***************************************************************************)
OptionValues == { "true", "false", "undefined" }

\* lines 30-32
ResolveRebuild(opt_rebuild, argv_rebuild) ==
  IF opt_rebuild = "undefined" THEN argv_rebuild ELSE opt_rebuild = "true"

\* lines 33-38
ResolveWrite(opt_write, rebuild, argv_write) ==
  IF rebuild THEN TRUE
  ELSE IF opt_write = "undefined" THEN argv_write
  ELSE opt_write = "true"

\* The closures that gbcache() can build for a task version.
Closures(vers) ==
  { [version |-> ver,
     do_cache_rebuild |-> ResolveRebuild(opt_rebuild, argv_rebuild),
     do_cache_write |-> ResolveWrite(opt_write,
                                     ResolveRebuild(opt_rebuild, argv_rebuild),
                                     argv_write)] :
      ver \in vers, opt_write \in OptionValues, opt_rebuild \in OptionValues,
      argv_write \in BOOLEAN, argv_rebuild \in BOOLEAN }

Init ==
  /\ \E c \in Closures(Versions) :
       /\ version = c.version
       /\ do_cache_rebuild = c.do_cache_rebuild
       /\ do_cache_write = c.do_cache_write
  /\ index_file = [exists |-> FALSE, data |-> << >>]
  /\ cache_files = << >>
  /\ cache_dirs = FALSE
  /\ index = << >>
  /\ new_index = << >>
  /\ cache_hit = 0
  /\ cache_miss = 0
  /\ jobs = [p \in InputPaths |-> NoJob]
  /\ phase = "idle"
  /\ report = NoReport
  /\ prev = NoPrev
  /\ updates = 0
  /\ faults = 0

\* A later process of the build: gbcache() is called again, with the same or
\* a bumped task version; the disk stays.
NewProcess ==
  /\ phase \in { "idle", "finished" }
  /\ \E c \in Closures(version..MaxVersion) :
       /\ version' = c.version
       /\ do_cache_rebuild' = c.do_cache_rebuild
       /\ do_cache_write' = c.do_cache_write
  /\ phase' = "idle"
  /\ ForgetRun
  /\ UNCHANGED << disk, updates, faults >>

(***************************************************************************)
(* init(next), lines 59-100, and the jobs the orchestrator has this run.   *)
(***************************************************************************)
InitRun(input_sets) ==
  /\ phase \in { "idle", "finished" }
  /\ new_index' = << >>
  /\ cache_hit' = 0
  /\ cache_miss' = 0
  /\ index' = LoadIndex(index_file)
  /\ \E inputs \in input_sets :
       jobs' = [p \in InputPaths |->
                  IF inputs[p] = NoContents THEN NoJob
                  ELSE [NoJob EXCEPT !.pc = "queued", !.contents = inputs[p]]]
  /\ phase' = "run"
  /\ report' = NoReport
  /\ UNCHANGED << closure, disk, updates, faults >>

RunInit == InitRun(InputSets)

RunInitWide == InitRun(WideInputSets)

(***************************************************************************)
(* func(job, done), lines 101-183.                                         *)
(***************************************************************************)
\* CacheValid without the comparison of versions.
CacheValidAnyVersion(idx, relative, input_hash, ver) ==
  /\ HasKey(idx, relative)
  /\ Lookup(idx, relative).input_hash = input_hash

\* lines 143-147: the old index has a record for the input that appears valid
CacheValid(idx, relative, input_hash, ver) ==
  /\ HasKey(idx, relative)
  /\ Lookup(idx, relative).ver = ver
  /\ Lookup(idx, relative).input_hash = input_hash

\* cacheMiss that also delivers the files read so far.
cacheMissPartial(job) ==
  [job EXCEPT !.pc = "task", !.pending = {}, !.task_calls = @ + 1,
              !.served = job.outputs, !.out = job.outputs]

\* lines 107-110: count the miss and call the wrapped task
cacheMiss(job) ==
  [job EXCEPT !.pc = "task", !.pending = {}, !.task_calls = @ + 1]

\* lines 173-178: deliver the verified files, in the order their reads ended
DeliverHit(job, outputs) ==
  [job EXCEPT !.pc = "done", !.pending = {}, !.outputs = outputs,
              !.served = @ \o outputs, !.out = @ \o outputs,
              !.done_calls = @ + 1]

\* line 177
MarkSeen(idx, relative) ==
  [i \in 1..Len(idx) |->
     IF idx[i].relative = relative THEN [idx[i] EXCEPT !.seen = TRUE] ELSE idx[i]]

\* ReadOutcome without the comparison of hashes.
ReadOutcomeUnverified(files, cached_file, output_hash, io_error) ==
  IF io_error \/ cached_file \notin DOMAIN files THEN "unable to load" ELSE "ok"

\* lines 152-162: what the read of one cached file ends with; io_error says
\* that readFile fails although the file is there
ReadOutcome(files, cached_file, output_hash, io_error) ==
  IF io_error \/ cached_file \notin DOMAIN files THEN "unable to load"
  ELSE IF hash(files[cached_file]) # output_hash THEN "corrupt cache"
  ELSE "ok"

\* lines 112-136: the entry recorded for a miss
NewEntry(relative, ver, input_hash, output_queue) ==
  [relative |-> relative,
   ver |-> ver,
   input_hash |-> input_hash,
   files |-> [ii \in 1..Len(output_queue) |->
                [relative |-> output_queue[ii].relative,
                 output_hash |-> hash(output_queue[ii].contents),
                 needs_write |-> TRUE,
                 contents |-> output_queue[ii].contents]],
   seen |-> FALSE]

\* func() without the assertion of line 104.
AssertNothing(relative) == TRUE

\* line 104
AssertNoDelimiter(relative) == \A i \in 1..Len(relative) : relative[i] # ";"

\* func() up to the point where it waits for a read or for the task.
Func(p) ==
  /\ phase = "run"
  /\ jobs[p].pc = "queued"
  /\ LET job == jobs[p]
         input_hash == hash(job.contents)
     IN IF ~AssertNoDelimiter(p)
        THEN /\ jobs' = [jobs EXCEPT ![p].pc = "threw"]
             /\ UNCHANGED << index, cache_hit, cache_miss >>
        ELSE IF CacheValid(index, p, input_hash, version)
        THEN IF Lookup(index, p).files = << >>
             THEN \* asyncEach over no files: the completion runs at once
                  /\ jobs' = [jobs EXCEPT ![p] = DeliverHit(job, << >>)]
                  /\ cache_hit' = cache_hit + 1
                  /\ index' = MarkSeen(index, p)
                  /\ UNCHANGED cache_miss
             ELSE /\ jobs' = [jobs EXCEPT ![p].pc = "reading",
                                          ![p].pending = 1..Len(Lookup(index, p).files)]
                  /\ UNCHANGED << index, cache_hit, cache_miss >>
        ELSE /\ jobs' = [jobs EXCEPT ![p] = cacheMiss(job)]
             /\ cache_miss' = cache_miss + 1
             /\ UNCHANGED << index, cache_hit >>
  /\ UNCHANGED << closure, disk, new_index, phase, report, updates, faults >>

\* The callback of fs.readFile for file idx of the record, lines 152-168, and
\* the completion of asyncEach, lines 169-179, when this read is the first to
\* fail or the last to succeed.  After a failure the reads still pending only
\* push to an array that is never delivered.
ReadDone(p, idx) ==
  /\ phase = "run"
  /\ jobs[p].pc = "reading"
  /\ idx \in jobs[p].pending
  /\ \E io_error \in BOOLEAN :
       LET job == jobs[p]
           cache_record == Lookup(index, p)
           file_entry == cache_record.files[idx]
           cached_file == recordToFilename2(cache_record, file_entry)
           outcome == ReadOutcome(cache_files, cached_file,
                                  file_entry.output_hash, io_error)
           outputs == Append(job.outputs,
                             Out(file_entry.relative, cache_files[cached_file]))
       IN /\ io_error => (cached_file \in DOMAIN cache_files /\ faults < MaxFaults)
          /\ faults' = IF io_error THEN faults + 1 ELSE faults
          /\ IF outcome # "ok"
             THEN /\ jobs' = [jobs EXCEPT ![p] = cacheMiss(job)]
                  /\ cache_miss' = cache_miss + 1
                  /\ UNCHANGED << index, cache_hit >>
             ELSE IF job.pending = {idx}
             THEN /\ jobs' = [jobs EXCEPT ![p] = DeliverHit(job, outputs)]
                  /\ cache_hit' = cache_hit + 1
                  /\ index' = MarkSeen(index, p)
                  /\ UNCHANGED cache_miss
             ELSE /\ jobs' = [jobs EXCEPT ![p].outputs = outputs,
                                          ![p].pending = @ \ {idx}]
                  /\ UNCHANGED << index, cache_hit, cache_miss >>
  /\ UNCHANGED << closure, disk, new_index, phase, report, updates >>

\* done(err), line 139
TaskCallback(job, result) ==
  [job EXCEPT !.pc = "done",
              !.out = @ \o result.files,
              !.task_err = result.err,
              !.done_calls = @ + 1,
              !.done_err = result.err]

\* RecordsEntry with write-back always on.
RecordsEntryAlways(err, write) == err = NoError

\* RecordsEntry without the test of the error.
RecordsEntryOnError(err, write) == write

\* lines 111-120: whether the callback records an entry
RecordsEntry(err, write) == err = NoError /\ write

\* The callback that func() hands to task_opts.func, lines 110-140.
TaskCompletes(p, results) ==
  /\ phase = "run"
  /\ jobs[p].pc = "task"
  /\ \E result \in results :
       LET job == jobs[p]
           output_queue == job.out \o result.files
       IN /\ jobs' = [jobs EXCEPT ![p] = TaskCallback(job, result)]
          /\ new_index' =
               IF RecordsEntry(result.err, do_cache_write)
               THEN Assign(new_index,
                           NewEntry(p, version, hash(job.contents), output_queue))
               ELSE new_index
  /\ UNCHANGED << closure, disk, index, cache_hit, cache_miss, phase, report,
                  updates, faults >>

TaskDone(p) == TaskCompletes(p, TaskResults(p))

TaskDoneWide(p) == TaskCompletes(p, WideTaskResults(p))

(***************************************************************************)
(* finish(), lines 184-309.                                                *)
(***************************************************************************)
\* SameFile without the comparison of hashes.
SameRelative(new_file, old_file) == new_file.relative = old_file.relative

\* line 222
SameFile(new_file, old_file) ==
  /\ new_file.relative = old_file.relative
  /\ new_file.output_hash = old_file.output_hash

\* lines 219-228: found
FoundInNew(old_file, new_entry) ==
  \E jj \in 1..Len(new_entry.files) : SameFile(new_entry.files[jj], old_file)

\* lines 224-225: the new files that equal an old file lose contents and flag
UseOldFiles(old_entry, new_entry) ==
  [new_entry EXCEPT !.files =
     [jj \in 1..Len(new_entry.files) |->
        IF \E ii \in 1..Len(old_entry.files) :
             SameFile(new_entry.files[jj], old_entry.files[ii])
        THEN [new_entry.files[jj] EXCEPT !.needs_write = FALSE,
                                         !.contents = NoContents]
        ELSE new_entry.files[jj]]]

\* lines 229-232: the old files without an equal new file, to be pruned
RECURSIVE SupersededFrom(_, _, _)
SupersededFrom(old_entry, new_entry, ii) ==
  IF ii > Len(old_entry.files) THEN << >>
  ELSE (IF FoundInNew(old_entry.files[ii], new_entry) THEN << >>
        ELSE << recordToFilename2(old_entry, old_entry.files[ii]) >>)
       \o SupersededFrom(old_entry, new_entry, ii + 1)

Superseded(old_entry, new_entry) == SupersededFrom(old_entry, new_entry, 1)

\* lines 242-246
AllFilesOf(old_entry) ==
  [ii \in 1..Len(old_entry.files) |-> recordToFilename2(old_entry, old_entry.files[ii])]

\* PruneUnvisited without the comparison of versions.
PruneUnvisitedRebuildOnly(old_entry, ver, rebuild) == rebuild /\ ~old_entry.seen

\* PruneUnvisited that never prunes.
PruneUnvisitedNever(old_entry, ver, rebuild) == FALSE

\* PruneUnvisited that prunes in rebuild mode whether seen or not.
PruneUnvisitedSeenToo(old_entry, ver, rebuild) ==
  \/ old_entry.ver # ver
  \/ rebuild

\* PruneUnvisited without the rebuild policy.
PruneUnvisitedVersionOnly(old_entry, ver, rebuild) == old_entry.ver # ver

\* lines 200-205, for an old entry without a new one
PruneUnvisited(old_entry, ver, rebuild) ==
  \/ old_entry.ver # ver
  \/ rebuild /\ ~old_entry.seen

\* One pass of the loop of lines 194-247.
ReconcileEntry(acc, old_entry, ver, rebuild) ==
  IF ~HasKey(acc.new_index, old_entry.relative)
  THEN IF PruneUnvisited(old_entry, ver, rebuild)
       THEN [acc EXCEPT !.to_prune = @ \o AllFilesOf(old_entry)]
       ELSE [acc EXCEPT !.new_index = Append(@, old_entry),
                        !.unchanged = @ + 1]
  ELSE LET new_entry == Lookup(acc.new_index, old_entry.relative)
       IN IF old_entry.input_hash = new_entry.input_hash
          THEN LET gone == Superseded(old_entry, new_entry)
               IN [acc EXCEPT
                     !.new_index = Assign(@, UseOldFiles(old_entry, new_entry)),
                     !.to_prune = @ \o gone,
                     !.unchanged = IF gone = << >> THEN @ + 1 ELSE @]
          ELSE [acc EXCEPT !.to_prune = @ \o AllFilesOf(old_entry)]

RECURSIVE ReconcileFrom(_, _, _, _, _)
ReconcileFrom(acc, old, ii, ver, rebuild) ==
  IF ii > Len(old) THEN acc
  ELSE ReconcileFrom(ReconcileEntry(acc, old[ii], ver, rebuild), old, ii + 1,
                     ver, rebuild)

\* lines 192-247
Reconcile(old, new, ver, rebuild) ==
  ReconcileFrom([new_index |-> new, to_prune |-> << >>, unchanged |-> 0],
                old, 1, ver, rebuild)

\* lines 257-268: the writes, in order
RECURSIVE WritesOfEntry(_, _)
WritesOfEntry(new_entry, ii) ==
  IF ii > Len(new_entry.files) THEN << >>
  ELSE (IF new_entry.files[ii].needs_write
        THEN << [name |-> recordToFilename2(new_entry, new_entry.files[ii]),
                 contents |-> new_entry.files[ii].contents] >>
        ELSE << >>)
       \o WritesOfEntry(new_entry, ii + 1)

RECURSIVE WriteList(_)
WriteList(idx) ==
  IF idx = << >> THEN << >>
  ELSE WritesOfEntry(Head(idx), 1) \o WriteList(Tail(idx))

\* fs.writeFileSync for each write, line 262
RECURSIVE WriteFiles(_, _)
WriteFiles(files, writes) ==
  IF writes = << >> THEN files
  ELSE WriteFiles((Head(writes).name :> Head(writes).contents) @@ files,
                  Tail(writes))

\* lines 264-265
ClearWritten(idx) ==
  [i \in 1..Len(idx) |->
     [idx[i] EXCEPT !.files =
        [ii \in 1..Len(idx[i].files) |->
           [idx[i].files[ii] EXCEPT !.needs_write = FALSE,
                                    !.contents = NoContents]]]]

RemoveFile(files, name) == [n \in DOMAIN files \ {name} |-> files[n]]

\* One call of fs by finish().
FsOp(op, name) == [op |-> op, name |-> name]

\* Unlink without the try and catch of lines 292-297: the first unlinkSync
\* that throws ends the loop.
RECURSIVE UnlinkUncaught(_, _, _, _)
UnlinkUncaught(acc, to_prune, ii, throws) ==
  IF ii > Len(to_prune) THEN acc
  ELSE IF to_prune[ii] \notin DOMAIN acc.files
  THEN UnlinkUncaught([acc EXCEPT !.ops = Append(@, FsOp("absent", to_prune[ii]))],
                      to_prune, ii + 1, throws)
  ELSE IF ii \in throws
  THEN [acc EXCEPT !.ops = Append(@, FsOp("unlink threw", to_prune[ii]))]
  ELSE UnlinkUncaught([files |-> RemoveFile(acc.files, to_prune[ii]),
                       pruned |-> acc.pruned + 1,
                       ops |-> Append(acc.ops, FsOp("unlink", to_prune[ii]))],
                      to_prune, ii + 1, throws)

\* lines 288-299: throws is the set of positions whose unlinkSync would throw
RECURSIVE Unlink(_, _, _, _)
Unlink(acc, to_prune, ii, throws) ==
  IF ii > Len(to_prune) THEN acc
  ELSE Unlink(IF to_prune[ii] \notin DOMAIN acc.files
              THEN [acc EXCEPT !.ops = Append(@, FsOp("absent", to_prune[ii]))]
              ELSE IF ii \in throws
              THEN [acc EXCEPT !.ops = Append(@, FsOp("unlink threw", to_prune[ii]))]
              ELSE [files |-> RemoveFile(acc.files, to_prune[ii]),
                    pruned |-> acc.pruned + 1,
                    ops |-> Append(acc.ops, FsOp("unlink", to_prune[ii]))],
              to_prune, ii + 1, throws)

\* finish() without the reset of line 308.
RebuildKept == do_cache_rebuild

\* line 308
RebuildAfterFinish == FALSE

\* line 189
UpdatesCache(new, rebuild) == Len(new) > 0 \/ rebuild

JobsOver == \A p \in InputPaths : jobs[p].pc \in { "none", "done", "threw" }

Finish ==
  /\ phase = "run"
  /\ JobsOver
  /\ IF UpdatesCache(new_index, do_cache_rebuild)
     THEN \E throws \in SUBSET (1..Len(Reconcile(index, new_index, version,
                                                 do_cache_rebuild).to_prune)) :
            LET merged == Reconcile(index, new_index, version, do_cache_rebuild)
                writes == WriteList(merged.new_index)
                written == WriteFiles(cache_files, writes)
                final == ClearWritten(merged.new_index)
                after == Unlink([files |-> written, pruned |-> 0,
                                 ops |-> [i \in 1..Len(writes) |->
                                            FsOp("write", writes[i].name)]
                                         \o << FsOp("write index", << >>) >>],
                                merged.to_prune, 1, throws)
            IN /\ \A ii \in throws : merged.to_prune[ii] \in DOMAIN written
               /\ faults + Cardinality(throws) <= MaxFaults
               /\ faults' = faults + Cardinality(throws)
               /\ updates < MaxUpdates
               /\ updates' = updates + 1
               /\ cache_dirs' = TRUE
               /\ new_index' = final
               /\ index_file' = [exists |-> TRUE, data |-> IndexText(final, version)]
               /\ cache_files' = after.files
               /\ report' = [rebuild |-> do_cache_rebuild,
                             reconciled |-> TRUE,
                             to_prune |-> merged.to_prune,
                             written |-> [i \in 1..Len(writes) |-> writes[i].name],
                             new_files |-> Len(writes),
                             pruned |-> after.pruned,
                             unchanged |-> merged.unchanged,
                             ops |-> after.ops]
     ELSE /\ report' = NoReport
          /\ UNCHANGED << disk, new_index, updates, faults >>
  /\ do_cache_rebuild' = RebuildAfterFinish
  /\ phase' = "finished"
  /\ UNCHANGED << version, do_cache_write, index, cache_hit, cache_miss, jobs >>

(***************************************************************************)
(* The environment: a cached file is deleted or altered between runs by    *)
(* something other than this code (a bad merge, a disk fault).             *)
(***************************************************************************)
Tamper ==
  /\ phase \in { "idle", "finished" }
  /\ faults < MaxFaults
  /\ \E name \in DOMAIN cache_files :
       \/ cache_files' = RemoveFile(cache_files, name)
       \/ \E c \in Contents \ {cache_files[name]} :
            cache_files' = [cache_files EXCEPT ![name] = c]
  /\ faults' = faults + 1
  /\ phase' = "idle"
  /\ ForgetRun
  /\ UNCHANGED << closure, index_file, cache_dirs, updates >>

Next ==
  \/ NewProcess /\ UNCHANGED prev
  \/ RunInit /\ UNCHANGED prev
  \/ \E p \in InputPaths : Func(p) /\ UNCHANGED prev
  \/ \E p \in InputPaths : \E idx \in 1..2 : ReadDone(p, idx) /\ UNCHANGED prev
  \/ \E p \in InputPaths : TaskDone(p) /\ UNCHANGED prev
  \/ Finish /\ UNCHANGED prev
  \/ Tamper /\ UNCHANGED prev

Spec == Init /\ [][Next]_vars

(***************************************************************************)
(* The same program with the record of the last completed run kept.        *)
(***************************************************************************)
TrackPrev ==
  prev' =
    IF phase' = "run" /\ phase # "run"
    THEN [NoPrev EXCEPT !.same = /\ prev.known
                                 /\ prev.version = version
                                 /\ \A p \in InputPaths :
                                      prev.inputs[p] = jobs'[p].contents]
    ELSE IF phase' = "finished" /\ phase = "run"
    THEN [known |-> TRUE, inputs |-> [p \in InputPaths |-> jobs[p].contents],
          version |-> version, same |-> prev.same]
    ELSE IF phase' = "idle" /\ cache_files' # cache_files
    THEN NoPrev
    ELSE IF phase' = "idle"
    THEN [prev EXCEPT !.same = FALSE]
    ELSE prev

NextTracked ==
  \/ NewProcess /\ TrackPrev
  \/ RunInit /\ TrackPrev
  \/ \E p \in InputPaths : Func(p) /\ TrackPrev
  \/ \E p \in InputPaths : \E idx \in 1..2 : ReadDone(p, idx) /\ TrackPrev
  \/ \E p \in InputPaths : TaskDone(p) /\ TrackPrev
  \/ Finish /\ TrackPrev
  \/ Tamper /\ TrackPrev

SpecTracked == Init /\ [][NextTracked]_vars

(***************************************************************************)
(* The same program given unusual paths: an input path with the delimiter, *)
(* output paths with the delimiter or with the same safeFilename.          *)
(***************************************************************************)
NextWide ==
  \/ NewProcess /\ UNCHANGED prev
  \/ RunInitWide /\ UNCHANGED prev
  \/ \E p \in InputPaths : Func(p) /\ UNCHANGED prev
  \/ \E p \in InputPaths : \E idx \in 1..2 : ReadDone(p, idx) /\ UNCHANGED prev
  \/ \E p \in InputPaths : TaskDoneWide(p) /\ UNCHANGED prev
  \/ Finish /\ UNCHANGED prev
  \/ Tamper /\ UNCHANGED prev

SpecWide == Init /\ [][NextWide]_vars

(***************************************************************************)
(* Properties.                                                             *)
(***************************************************************************)
InRun == phase \in { "run", "finished" }

\* func() has chosen between the hit path and the miss path for the job.
Probed(job) == job.pc \in { "reading", "task", "done" }

\* The record of the old index for p matches the task version and the input.
AppearsValid(p) ==
  \E i \in 1..Len(index) :
    /\ index[i].relative = p
    /\ index[i].ver = version
    /\ index[i].input_hash = hash(jobs[p].contents)

\* The outputs that the files of a record stand for: each file's relative
\* path with the bytes that have its output_hash.
RecordedOutputs(record) ==
  UNION { { Out(record.files[ii].relative, c) :
              c \in { b \in Contents : hash(b) = record.files[ii].output_hash } } :
            ii \in 1..Len(record.files) }

Range(seq) == { seq[i] : i \in 1..Len(seq) }

\* The file of record.files[ii] is in the cache folder with the recorded hash.
FileIntact(record, ii) ==
  LET name == recordToFilename2(record, record.files[ii])
  IN /\ name \in DOMAIN cache_files
     /\ hash(cache_files[name]) = record.files[ii].output_hash

\* C1: an input whose record in the persisted index has the current task
\* version and the hash of the input's bytes, with the cache folder touched by
\* nothing but this code, is served the recorded outputs, and the wrapped task
\* is not called for it.
HitCorrectness ==
  \A p \in InputPaths :
    (InRun /\ faults = 0 /\ Probed(jobs[p]) /\ AppearsValid(p))
      => /\ jobs[p].task_calls = 0
         /\ jobs[p].pc = "done"
              => Range(jobs[p].out) = RecordedOutputs(Lookup(index, p))

\* C1, the failing case: with no fault of the environment, finish() has
\* written a cache file and then deleted it, because it queued for deletion
\* the old file of the same name.
WrittenThenPruned ==
  /\ phase = "finished"
  /\ faults = 0
  /\ \E name \in Range(report.written) :
       /\ name \in Range(report.to_prune)
       /\ name \notin DOMAIN cache_files

\* C2: every file that func() delivers from the cache has the output_hash of
\* a file of the input's record; and while a file of an apparently valid
\* record is missing or has another hash, nothing is delivered from the cache
\* for that input and the input goes the way of a miss.
CorruptionSafety ==
  \A p \in InputPaths :
    LET job == jobs[p]
    IN /\ \A i \in 1..Len(job.served) :
            \E k \in 1..Len(index) :
              /\ index[k].relative = p
              /\ \E ii \in 1..Len(index[k].files) :
                   /\ index[k].files[ii].relative = job.served[i].relative
                   /\ index[k].files[ii].output_hash = hash(job.served[i].contents)
       /\ (/\ phase = "run"
           /\ AppearsValid(p)
           /\ \E ii \in 1..Len(Lookup(index, p).files) :
                ~FileIntact(Lookup(index, p), ii))
            => /\ job.served = << >>
               /\ job.pc = "done" => job.task_calls = 1

\* C2 witness: a job ended as a miss because a cached file of its valid
\* record was there with altered bytes.
CorruptFileMissed ==
  \E p \in InputPaths :
    /\ phase = "run"
    /\ jobs[p].pc = "done"
    /\ AppearsValid(p)
    /\ \E ii \in 1..Len(Lookup(index, p).files) :
         LET name == recordToFilename2(Lookup(index, p), Lookup(index, p).files[ii])
         IN /\ name \in DOMAIN cache_files
            /\ hash(cache_files[name]) # Lookup(index, p).files[ii].output_hash

\* C3: the wrapped task is called at most once for a job, and exactly once as
\* soon as func() has probed an input that has no record in the old index, or
\* a record of another version, or a record of another input hash.
MissCorrectness ==
  \A p \in InputPaths :
    /\ jobs[p].task_calls <= 1
    /\ (InRun /\ Probed(jobs[p]) /\ ~AppearsValid(p)) => jobs[p].task_calls = 1

\* C3 witness: the task was called for an input whose record has the input's
\* hash but an older version.
VersionMissRan ==
  \E p \in InputPaths :
    /\ InRun
    /\ jobs[p].pc = "done"
    /\ jobs[p].task_calls = 1
    /\ \E i \in 1..Len(index) :
         /\ index[i].relative = p
         /\ index[i].ver # version
         /\ index[i].input_hash = hash(jobs[p].contents)

\* C4: a job that is done either was served every file of its record, without
\* a call of the task, with the record marked seen, or was served nothing and
\* the task was called; done is called once, when the job ends, and nothing is
\* served before; the counters count the hits and the misses once each.
AllOrNothing ==
  /\ \A p \in InputPaths :
       LET job == jobs[p]
       IN /\ job.done_calls = IF job.pc = "done" THEN 1 ELSE 0
          /\ job.pc # "done" => job.served = << >>
          /\ job.pc = "done" =>
               \/ /\ job.task_calls = 0
                  /\ \E k \in 1..Len(index) :
                       /\ index[k].relative = p
                       /\ index[k].seen
                       /\ Len(job.served) = Len(index[k].files)
                       /\ Range(job.served) = RecordedOutputs(index[k])
               \/ /\ job.task_calls = 1
                  /\ job.served = << >>
  /\ cache_hit = Cardinality({ p \in InputPaths :
                                 jobs[p].pc = "done" /\ jobs[p].task_calls = 0 })
  /\ cache_miss = Cardinality({ p \in InputPaths : jobs[p].task_calls = 1 })

\* C4 witness: of the two files of a record one was read and verified and the
\* other failed, and the job ended as a miss.
PartialReadMissed ==
  \E p \in InputPaths :
    /\ jobs[p].pc = "done"
    /\ jobs[p].task_calls = 1
    /\ Len(jobs[p].outputs) = 1
    /\ AppearsValid(p)
    /\ Len(Lookup(index, p).files) = 2

\* The index that the index file holds.
Persisted == LoadIndex(index_file)

\* The (relative, output_hash) pairs of a record.
FilePairs(record) ==
  { << record.files[ii].relative, record.files[ii].output_hash >> :
      ii \in 1..Len(record.files) }

\* The names of the cache files of a record.
FileNames(record) ==
  { recordToFilename2(record, record.files[ii]) : ii \in 1..Len(record.files) }

\* The job of p recorded an entry in the new index this run.
RecordedThisRun(p) ==
  /\ do_cache_write
  /\ jobs[p].pc = "done"
  /\ jobs[p].task_calls = 1
  /\ jobs[p].task_err = NoError

\* The old entry is in the persisted index as it was, and none of its files
\* has been queued for deletion.
CarriedForward(old_entry) ==
  /\ HasKey(Persisted, old_entry.relative)
  /\ Lookup(Persisted, old_entry.relative).ver = old_entry.ver
  /\ Lookup(Persisted, old_entry.relative).input_hash = old_entry.input_hash
  /\ FilePairs(Lookup(Persisted, old_entry.relative)) = FilePairs(old_entry)
  /\ FileNames(old_entry) \cap Range(report.to_prune) = {}

\* C5: when a run with write-back at a bumped version has updated the cache
\* (no fault of the environment), then for every old entry of another
\* version: if its input had a job whose task succeeded, the files of the
\* input's persisted entry are in the cache with their recorded hash, and the
\* old files that are not among them are gone; otherwise the entry is not in
\* the persisted index and its files are gone.
VersionBumpPruning ==
  (phase = "finished" /\ report.reconciled /\ do_cache_write /\ faults = 0)
    => \A k \in 1..Len(index) :
         index[k].ver # version =>
           IF RecordedThisRun(index[k].relative)
           THEN /\ HasKey(Persisted, index[k].relative)
                /\ \A ii \in 1..Len(Lookup(Persisted, index[k].relative).files) :
                     FileIntact(Lookup(Persisted, index[k].relative), ii)
                /\ \A name \in FileNames(index[k]) :
                     name \in FileNames(Lookup(Persisted, index[k].relative))
                       \/ name \notin DOMAIN cache_files
           ELSE /\ ~HasKey(Persisted, index[k].relative)
                /\ \A name \in FileNames(index[k]) : name \notin DOMAIN cache_files

\* C5, the failing case: after a run at a bumped version with no fault of the
\* environment, the persisted entry of an input whose task succeeded names a
\* file that is not in the cache.
BumpedEntryFileGone ==
  /\ phase = "finished"
  /\ report.reconciled
  /\ faults = 0
  /\ \E k \in 1..Len(index) :
       /\ index[k].ver # version
       /\ RecordedThisRun(index[k].relative)
       /\ HasKey(Persisted, index[k].relative)
       /\ \E ii \in 1..Len(Lookup(Persisted, index[k].relative).files) :
            ~FileIntact(Lookup(Persisted, index[k].relative), ii)

\* C6 as stated: a run with write-back, with the inputs and the task version
\* of the last completed run, with a hit and without a miss, ends with no
\* file written and no file pruned, and with every index entry counted
\* unchanged when finish() counts.
IdempotentReconciliation ==
  (/\ phase = "finished"
   /\ do_cache_write
   /\ prev.same
   /\ cache_miss = 0
   /\ cache_hit > 0)
    => /\ report.new_files = 0
       /\ report.pruned = 0
       /\ report.reconciled => report.unchanged = Len(index)

\* C6 as amended: the same, for the runs in which rebuild mode is off or every
\* entry of the old index was served as a hit.
IdempotentWhenAllSeen ==
  (/\ phase = "finished"
   /\ do_cache_write
   /\ prev.same
   /\ cache_miss = 0
   /\ report.rebuild => \A k \in 1..Len(index) : index[k].seen)
    => /\ report.new_files = 0
       /\ report.pruned = 0
       /\ report.to_prune = << >>
       /\ report.reconciled =>
            /\ report.unchanged = Len(index)
            /\ Len(Persisted) = Len(index)

\* C6 witness: a rebuild run that repeated the last run, hit on every entry
\* of the index and updated the cache.
RepeatedRunAllHits ==
  /\ phase = "finished"
  /\ prev.same
  /\ cache_miss = 0
  /\ cache_hit > 0
  /\ report.rebuild
  /\ report.reconciled
  /\ \A k \in 1..Len(index) : index[k].seen

\* C7: after finish() in rebuild mode, every old entry without a job this run
\* has all its files queued for deletion and is not in the persisted index,
\* and every old entry that was seen is carried forward.
RebuildPrunesUnvisited ==
  (phase = "finished" /\ report.rebuild)
    => \A k \in 1..Len(index) :
         /\ jobs[index[k].relative].pc = "none" =>
              /\ FileNames(index[k]) \subseteq Range(report.to_prune)
              /\ ~HasKey(Persisted, index[k].relative)
         /\ index[k].seen => CarriedForward(index[k])

\* C7 witness: a rebuild run pruned an entry of the current version that had
\* no job and kept an entry that was hit.
RebuildPrunedOne ==
  /\ phase = "finished"
  /\ report.rebuild
  /\ \E k \in 1..Len(index) :
       /\ jobs[index[k].relative].pc = "none"
       /\ index[k].ver = version
       /\ index[k].files # << >>
  /\ \E k \in 1..Len(index) : index[k].seen

\* C8: do_cache_rebuild is false when finish() has returned and becomes true
\* only between runs, when gbcache() builds a closure; a finish() that updates
\* the cache out of rebuild mode carries forward every old entry of the
\* current version that was not seen and got no new entry; and an entry is
\* seen only when its input was served as a hit in this run.
RebuildFirstRunOnly ==
  /\ [](phase = "finished" => ~do_cache_rebuild)
  /\ [][(~do_cache_rebuild /\ do_cache_rebuild')
          => (phase # "run" /\ phase' = "idle")]_vars
  /\ []((phase = "finished" /\ report.reconciled /\ ~report.rebuild)
          => \A k \in 1..Len(index) :
               (/\ index[k].ver = version
                /\ ~index[k].seen
                /\ ~RecordedThisRun(index[k].relative))
                 => CarriedForward(index[k]))
  /\ [](\A k \in 1..Len(index) :
          index[k].seen => /\ jobs[index[k].relative].pc = "done"
                           /\ jobs[index[k].relative].task_calls = 0)

\* C8 witness: out of rebuild mode, finish() updated the cache and kept an
\* entry of the current version whose input had no job.
UnseenCarriedForward ==
  /\ phase = "finished"
  /\ report.reconciled
  /\ ~report.rebuild
  /\ \E k \in 1..Len(index) :
       /\ index[k].ver = version
       /\ jobs[index[k].relative].pc = "none"
       /\ HasKey(Persisted, index[k].relative)

\* C9: without write-back and without rebuild mode, no step of a run records
\* an entry in the new index or changes the index file, the cache files or
\* the directories.
ReadOnlyWithoutWrite ==
  [][(phase = "run" /\ ~do_cache_write /\ ~do_cache_rebuild)
       => (new_index' = << >> /\ disk' = disk)]_vars

\* C9 witness: a run without write-back over an existing cache has ended with
\* a hit and with a miss whose task succeeded.
ReadOnlyRunEnded ==
  /\ phase = "finished"
  /\ ~do_cache_write
  /\ index_file.exists
  /\ cache_hit > 0
  /\ \E p \in InputPaths :
       /\ jobs[p].task_calls = 1
       /\ jobs[p].task_err = NoError
       /\ jobs[p].out # << >>

\* The names that cache files of outputs of input p would have this run.
NamesForInput(p) ==
  { recordToFilename2([input_hash |-> hash(jobs[p].contents)], [relative |-> r]) :
      r \in {p} \cup (IF p = PathA THEN {ExtraA} ELSE {}) }

\* C10: when the wrapped task fails, done is called once with the task's
\* error, no entry for the input is put in the new index, and finish() writes
\* no cache file for the input.
TaskErrorPropagates ==
  \A p \in InputPaths :
    (jobs[p].pc = "done" /\ jobs[p].task_err # NoError)
      => /\ jobs[p].done_calls = 1
         /\ jobs[p].done_err = jobs[p].task_err
         /\ phase = "run" => ~HasKey(new_index, p)
         /\ phase = "finished" =>
              /\ Range(report.written) \cap NamesForInput(p) = {}
              /\ HasKey(new_index, p) =>
                   /\ HasKey(index, p)
                   /\ Lookup(new_index, p).input_hash = Lookup(index, p).input_hash
                   /\ FilePairs(Lookup(new_index, p)) = FilePairs(Lookup(index, p))

\* C10 witness: the task failed for one input in a run with write-back whose
\* finish() updated the cache.
TaskFailedInWritingRun ==
  /\ phase = "finished"
  /\ do_cache_write
  /\ report.reconciled
  /\ report.new_files > 0
  /\ \E p \in InputPaths : jobs[p].pc = "done" /\ jobs[p].task_err = TaskError

(***************************************************************************)
(* Properties of the index file, of reconciliation and of the writes.      *)
(***************************************************************************)
\* The relative paths of the job's output queue.
OutputPaths(p) == { jobs[p].out[i].relative : i \in 1..Len(jobs[p].out) }

\* The (relative, output_hash) pairs of the job's output queue.
OutputPairsOf(p) ==
  { << jobs[p].out[i].relative, hash(jobs[p].out[i].contents) >> :
      i \in 1..Len(jobs[p].out) }

\* The path holds neither the delimiter of fields nor the delimiter of lines.
PlainPath(relative) ==
  \A i \in 1..Len(relative) : relative[i] \notin { ";", "\n" }

\* finish() has just recorded, for an input without an old entry, a miss with
\* two or more outputs of pairwise distinct relative paths.
FreshMultiOutput(p) ==
  /\ phase = "finished"
  /\ report.reconciled
  /\ RecordedThisRun(p)
  /\ ~HasKey(index, p)
  /\ Len(jobs[p].out) >= 2
  /\ Cardinality(OutputPaths(p)) = Len(jobs[p].out)

\* The outputs of the job have pairwise distinct safeFilename names and
\* plain paths.
DistinctPlainNames(p) ==
  /\ Cardinality({ safeFilename(r) : r \in OutputPaths(p) }) = Len(jobs[p].out)
  /\ \A r \in OutputPaths(p) : PlainPath(r)

\* What init() will load for p is what the job recorded, and every file of
\* it is in the cache folder with its hash.
RoundTrips(p) ==
  /\ HasKey(Persisted, p)
  /\ Lookup(Persisted, p).ver = version
  /\ Lookup(Persisted, p).input_hash = hash(jobs[p].contents)
  /\ FilePairs(Lookup(Persisted, p)) = OutputPairsOf(p)
  /\ \A ii \in 1..Len(Lookup(Persisted, p).files) :
       FileIntact(Lookup(Persisted, p), ii)

\* A job whose loaded record is valid and has every file intact, with no
\* fault of the environment, ends as a hit that delivers exactly the files of
\* the record with the bytes in the cache folder.
ServedWhenIntact(p) ==
  (/\ phase = "run"
   /\ faults = 0
   /\ jobs[p].pc = "done"
   /\ AppearsValid(p)
   /\ \A ii \in 1..Len(Lookup(index, p).files) : FileIntact(Lookup(index, p), ii))
    => /\ jobs[p].task_calls = 0
       /\ Len(jobs[p].out) = Len(Lookup(index, p).files)
       /\ Range(jobs[p].out) =
            { Out(Lookup(index, p).files[ii].relative,
                  cache_files[recordToFilename2(Lookup(index, p),
                                                Lookup(index, p).files[ii])]) :
                ii \in 1..Len(Lookup(index, p).files) }

\* C11 as stated: a miss with two or more outputs of pairwise distinct
\* relative paths, recorded for an input without an old entry, is persisted
\* so that init() loads the recorded outputs with every file intact, and a
\* valid record with every file intact is served as a hit with all its files.
MultiOutputRoundTrip ==
  \A p \in InputPaths :
    /\ FreshMultiOutput(p) => RoundTrips(p)
    /\ ServedWhenIntact(p)

\* C11 as amended: the same for outputs whose paths have pairwise distinct
\* safeFilename names and hold no ';' and no line break.
MultiOutputRoundTripPlain ==
  \A p \in InputPaths :
    /\ (FreshMultiOutput(p) /\ DistinctPlainNames(p)) => RoundTrips(p)
    /\ ServedWhenIntact(p)

\* C11 witness: a job was served from the cache, without a call of the task,
\* two files of distinct names that an earlier run recorded.
TwoOutputsServed ==
  /\ phase = "run"
  /\ faults = 0
  /\ \E p \in InputPaths :
       /\ jobs[p].pc = "done"
       /\ jobs[p].task_calls = 0
       /\ Len(jobs[p].out) = 2
       /\ jobs[p].out[1].relative # jobs[p].out[2].relative

\* The path holds the delimiter of the fields of an index line.
HasDelimiter(relative) == \E i \in 1..Len(relative) : relative[i] = ";"

\* The job of p has not got past the start of func().
NothingDone(p) ==
  /\ jobs[p].pc \in { "none", "queued", "threw" }
  /\ jobs[p].pending = {}
  /\ jobs[p].outputs = << >>
  /\ jobs[p].out = << >>
  /\ jobs[p].task_calls = 0
  /\ jobs[p].done_calls = 0
  /\ ~HasKey(new_index, p)

\* C12: a job whose input path holds ';' never gets past the start of func():
\* nothing is delivered to it, the wrapped task is not called for it and the
\* new index gets no entry for it; and the func() call of such a job ends by
\* throwing, with the counters of hits and misses, both indexes and the disk
\* as they were.
DelimiterAborts ==
  /\ [](\A p \in InputPaths : HasDelimiter(p) => NothingDone(p))
  /\ [][\A p \in InputPaths :
          (/\ HasDelimiter(p)
           /\ phase = "run"
           /\ phase' = "run"
           /\ jobs[p].pc = "queued"
           /\ jobs'[p] # jobs[p])
            => /\ jobs'[p] = [jobs[p] EXCEPT !.pc = "threw"]
               /\ UNCHANGED << cache_hit, cache_miss, index, new_index, disk >>]_vars

\* C12 witness: func() threw for the input with ';' in a run in which another
\* job was counted.
DelimiterInputThrew ==
  /\ phase = "run"
  /\ \E p \in InputPaths : HasDelimiter(p) /\ jobs[p].pc = "threw"
  /\ cache_hit + cache_miss = 1
  /\ \E q \in InputPaths : jobs[q].pc = "done"

\* The record has a file with the relative path and the output_hash of file.
HasCounterpart(file, record) ==
  << file.relative, file.output_hash >> \in FilePairs(record)

\* The old entries that finish() has reconciled with an entry recorded this
\* run for the same path.
BothOldAndNew ==
  { k \in 1..Len(index) :
      /\ phase = "finished"
      /\ report.reconciled
      /\ RecordedThisRun(index[k].relative) }

\* For the old entry and the new entry of one path: every old file with an
\* identical counterpart is left alone, its counterpart is not written, and
\* every old file without one is queued for deletion.
ReusesIdenticalFiles(old_entry, new_entry) ==
  /\ Range(report.to_prune) \cap FileNames(old_entry) =
       { recordToFilename2(old_entry, old_entry.files[ii]) :
           ii \in { i \in 1..Len(old_entry.files) :
                      ~HasCounterpart(old_entry.files[i], new_entry) } }
  /\ \A jj \in 1..Len(new_entry.files) :
       HasCounterpart(new_entry.files[jj], old_entry)
         => recordToFilename2(new_entry, new_entry.files[jj])
               \notin Range(report.written)

\* C13 as stated: for every path in both the old and the new index, the old
\* files with an identical counterpart in the new entry are not queued for
\* deletion and their counterparts are not written, and the old files
\* without one are queued for deletion.
ReconcileByFile ==
  \A k \in BothOldAndNew :
    ReusesIdenticalFiles(index[k], Lookup(new_index, index[k].relative))

\* C13 as amended: that holds when the old and the new entry have the same
\* input_hash; when they differ, every old file is queued for deletion and
\* every new file is written.
ReconcileByFileSameInput ==
  \A k \in BothOldAndNew :
    IF index[k].input_hash = Lookup(new_index, index[k].relative).input_hash
    THEN ReusesIdenticalFiles(index[k], Lookup(new_index, index[k].relative))
    ELSE /\ FileNames(index[k]) \subseteq Range(report.to_prune)
         /\ FileNames(Lookup(new_index, index[k].relative))
              \subseteq Range(report.written)

\* C13 witness: finish() reconciled an old entry of two files with a new
\* entry of the same input_hash that has an identical counterpart for one of
\* them only.
PartlySuperseded ==
  \E k \in BothOldAndNew :
    /\ index[k].input_hash = Lookup(new_index, index[k].relative).input_hash
    /\ \E i1, i2 \in 1..Len(index[k].files) :
         /\ HasCounterpart(index[k].files[i1], Lookup(new_index, index[k].relative))
         /\ ~HasCounterpart(index[k].files[i2], Lookup(new_index, index[k].relative))
         /\ recordToFilename2(index[k], index[k].files[i1]) \notin Range(report.to_prune)
         /\ recordToFilename2(index[k], index[k].files[i2]) \in Range(report.to_prune)

\* The lines of the index file.
IndexLines == IF index_file.data = << >> THEN << >> ELSE Split(index_file.data, "\n")

\* The old index has an entry for p that finish() keeps when no entry was
\* recorded for p: it has the task version and, in rebuild mode, was seen.
KeptFromOld(p) ==
  /\ HasKey(index, p)
  /\ Lookup(index, p).ver = version
  /\ report.rebuild => Lookup(index, p).seen

\* C14: when finish() has reconciled, the index file has one line per path
\* and one loaded entry per line; a path has an entry if and only if an entry
\* was recorded for it this run or the old index has an entry for it with the
\* task version that, in rebuild mode, was seen; and an entry that comes from
\* the old index alone has the old input_hash and file records, and none of
\* its files is written or queued for deletion.
PersistedIndexContents ==
  (phase = "finished" /\ report.reconciled)
    => /\ Len(IndexLines) = Len(Persisted)
       /\ Cardinality(KeySet(Persisted)) = Len(Persisted)
       /\ \A p \in InputPaths \cup KeySet(index) \cup KeySet(Persisted) :
            /\ HasKey(Persisted, p) <=> (RecordedThisRun(p) \/ KeptFromOld(p))
            /\ (HasKey(Persisted, p) /\ ~RecordedThisRun(p))
                 => /\ CarriedForward(Lookup(index, p))
                    /\ FileNames(Lookup(index, p)) \cap Range(report.written) = {}

\* C14 witness: finish() has persisted an entry recorded this run beside an
\* entry carried forward from the old index.
RecordedBesideCarried ==
  /\ phase = "finished"
  /\ report.reconciled
  /\ \E p, q \in InputPaths :
       /\ RecordedThisRun(p)
       /\ ~RecordedThisRun(q)
       /\ KeptFromOld(q)
       /\ HasKey(Persisted, p)
       /\ HasKey(Persisted, q)

\* init() loads for the entry that finish() serialized an entry of the same
\* version, input_hash and file records.
LoadsAsWritten(record) ==
  /\ HasKey(Persisted, record.relative)
  /\ Lookup(Persisted, record.relative).ver = record.ver
  /\ Lookup(Persisted, record.relative).input_hash = record.input_hash
  /\ FilePairs(Lookup(Persisted, record.relative)) = FilePairs(record)

\* C15 as stated: the index that finish() has written loads with the keys of
\* the final index and, for each key, its version, input_hash and file
\* records.
IndexRoundTrip ==
  (phase = "finished" /\ report.reconciled)
    => /\ KeySet(Persisted) = KeySet(new_index)
       /\ \A k \in 1..Len(new_index) : LoadsAsWritten(new_index[k])

\* C15 as amended: the same for the entries whose output paths hold no ';'
\* and no line break.
IndexRoundTripPlain ==
  (phase = "finished" /\ report.reconciled)
    => /\ KeySet(Persisted) = KeySet(new_index)
       /\ \A k \in 1..Len(new_index) :
            (\A ii \in 1..Len(new_index[k].files) :
               PlainPath(new_index[k].files[ii].relative))
              => LoadsAsWritten(new_index[k])

\* C15 witness: finish() has written an index with an entry without files
\* and an entry of two files whose second file is named like the entry.
IndexOfManyShapes ==
  /\ phase = "finished"
  /\ report.reconciled
  /\ \E j, k \in 1..Len(new_index) :
       /\ new_index[j].files = << >>
       /\ Len(new_index[k].files) = 2
       /\ new_index[k].files[2].relative = new_index[k].relative
       /\ PlainPath(new_index[k].files[1].relative)
       /\ LoadsAsWritten(new_index[j])
       /\ LoadsAsWritten(new_index[k])

\* The positions of the calls of fs of the last finish() that are op.
OpsOf(op) == { i \in 1..Len(report.ops) : report.ops[i].op = op }

\* C16: when finish() has updated the cache, its calls of fs are: the writes
\* of the cache files, then the write of the index file, then one step for
\* every queued path in order, whether or not an earlier delete threw; a
\* delete that throws leaves the file and is not counted, a queued path that
\* is not there is not counted, pruned counts the deletes that succeeded, and
\* finish() returns.
WriteIndexPrune ==
  (phase = "finished" /\ report.reconciled)
    => /\ Len(report.ops) = report.new_files + 1 + Len(report.to_prune)
       /\ \A i \in 1..report.new_files :
            report.ops[i] = FsOp("write", report.written[i])
       /\ report.ops[report.new_files + 1] = FsOp("write index", << >>)
       /\ \A j \in 1..Len(report.to_prune) :
            /\ report.ops[report.new_files + 1 + j].op
                 \in { "unlink", "unlink threw", "absent" }
            /\ report.ops[report.new_files + 1 + j].name = report.to_prune[j]
       /\ report.pruned = Cardinality(OpsOf("unlink"))
       /\ \A i \in OpsOf("unlink") : report.ops[i].name \notin DOMAIN cache_files
       /\ \A i \in OpsOf("unlink threw") :
            (\A j \in OpsOf("unlink") : j > i => report.ops[j].name # report.ops[i].name)
              => report.ops[i].name \in DOMAIN cache_files
       /\ index_file.exists
       /\ ~do_cache_rebuild

\* C16 witness: finish() wrote a file, then the index, then a delete threw
\* and the delete of the next queued path succeeded.
DeleteThrewThenDeleted ==
  /\ phase = "finished"
  /\ report.reconciled
  /\ report.new_files > 0
  /\ \E i \in OpsOf("unlink threw") : \E j \in OpsOf("unlink") : i < j
  /\ report.pruned < Len(report.to_prune)

\* The entry is the one cacheMiss() records for the job of p: the job's own
\* path, input hash and output queue, at the task version.
OwnEntry(entry, p) ==
  /\ entry.relative = p
  /\ entry.ver = version
  /\ entry.input_hash = hash(jobs[p].contents)
  /\ Len(entry.files) = Len(jobs[p].out)
  /\ \A i \in 1..Len(entry.files) :
       /\ entry.files[i].relative = jobs[p].out[i].relative
       /\ entry.files[i].output_hash = hash(jobs[p].out[i].contents)
       /\ entry.files[i].contents = jobs[p].out[i].contents
       /\ entry.files[i].needs_write

\* C17: throughout a run, whatever the order in which the reads and the
\* tasks of the jobs complete, the new index has exactly one entry for every
\* job whose task has succeeded on a miss with write-back, no other entry,
\* and each entry is the job's own.
DisjointKeys ==
  phase = "run"
    => /\ Cardinality(KeySet(new_index)) = Len(new_index)
       /\ KeySet(new_index) = { p \in InputPaths : RecordedThisRun(p) }
       /\ \A k \in 1..Len(new_index) : OwnEntry(new_index[k], new_index[k].relative)

\* C17 witness: two jobs missed in one run, the task of the second path
\* completed before the task of the first, and both entries are recorded.
TwoMissesRecorded ==
  /\ phase = "run"
  /\ JobsOver
  /\ Len(new_index) = 2
  /\ StrLess(new_index[2].relative, new_index[1].relative)
  /\ \A k \in 1..2 : new_index[k].files # << >>

\* The names of the cache files of the entries of the final index.
FinalFileNames == UNION { FileNames(new_index[k]) : k \in 1..Len(new_index) }

\* C18: when finish() has reconciled, no queued path is the cache file of a
\* file record of the final index, and, with no fault of the environment,
\* every file that was written and every file of an entry of the final index
\* that was not recorded this run is in the cache folder.
PrunesNoIndexedFile ==
  (phase = "finished" /\ report.reconciled)
    => /\ Range(report.to_prune) \cap FinalFileNames = {}
       /\ faults = 0 =>
            /\ Range(report.written) \subseteq DOMAIN cache_files
            /\ \A k \in 1..Len(new_index) :
                 ~RecordedThisRun(new_index[k].relative)
                   => FileNames(new_index[k]) \subseteq DOMAIN cache_files

\* C18, the failing case: with no fault of the environment, a path that
\* finish() queued and deleted is the cache file of a file record of the
\* index it persisted.
IndexedFileQueued ==
  /\ phase = "finished"
  /\ report.reconciled
  /\ faults = 0
  /\ \E name \in Range(report.to_prune) \cap FinalFileNames :
       name \notin DOMAIN cache_files

\* The job of p missed although the old entry of p has the task version and
\* the input's hash (a cache file of the entry could not be read or had
\* another hash), and its task succeeded in a run with write-back.
MissedOnValidEntry(p) ==
  /\ AppearsValid(p)
  /\ RecordedThisRun(p)

\* C19: when finish() has reconciled after a job missed on a valid entry and
\* its task succeeded, every file record of the input's persisted entry has
\* its cache file in the cache folder with the recorded hash.
CacheRepairsItself ==
  \A p \in InputPaths :
    (phase = "finished" /\ report.reconciled /\ MissedOnValidEntry(p))
      => /\ HasKey(Persisted, p)
         /\ \A ii \in 1..Len(Lookup(Persisted, p).files) :
              FileIntact(Lookup(Persisted, p), ii)

\* C19, the failing case: the task gave again the output that the old entry
\* records, finish() wrote no file, and the file of the persisted entry is
\* still not in the cache folder.
RepairSkipped ==
  \E p \in InputPaths :
    /\ phase = "finished"
    /\ report.reconciled
    /\ MissedOnValidEntry(p)
    /\ OutputPairsOf(p) = FilePairs(Lookup(index, p))
    /\ report.new_files = 0
    /\ \E ii \in 1..Len(Lookup(Persisted, p).files) :
         recordToFilename2(Lookup(Persisted, p), Lookup(Persisted, p).files[ii])
           \notin DOMAIN cache_files

\* C20: when finish() has reconciled, every entry of the final index has the
\* task version as its ver, entries recorded this run and entries carried
\* forward alike, and init() loads every entry with the entry's own ver.
FinalIndexAtTaskVersion ==
  (phase = "finished" /\ report.reconciled)
    => \A k \in 1..Len(new_index) :
         /\ new_index[k].ver = version
         /\ HasKey(Persisted, new_index[k].relative)
         /\ Lookup(Persisted, new_index[k].relative).ver = new_index[k].ver

\* C20 witness: at a bumped task version finish() has dropped an old entry of
\* the older version and persisted an entry recorded this run.
BumpedIndexWritten ==
  /\ phase = "finished"
  /\ report.reconciled
  /\ \E k \in 1..Len(index) :
       /\ index[k].ver # version
       /\ ~HasKey(new_index, index[k].relative)
  /\ \E k \in 1..Len(new_index) :
       /\ RecordedThisRun(new_index[k].relative)
       /\ Lookup(Persisted, new_index[k].relative).ver = version

====
